---------------------------- MODULE Spec2Model ----------------------------
(***************************************************************************)
(* Model of bot.py: a Telegram bot that downloads a PDF, extracts its      *)
(* text, asks a language model for a JSON record, replies with a summary   *)
(* and appends a row to a Google sheet.                                    *)
(*                                                                         *)
(* Texts are sequences of characters; a character is a one-character       *)
(* string, except the backtick, which is written TICK.  The Cyrillic keys  *)
(* of the JSON contract are written in Latin transliteration.              *)
(*                                                                         *)
(* One request is followed from its dispatch to the exit of                *)
(* handle_document; the handlers of different requests share only the      *)
(* disk, the sheet and the standard output, which are kept across          *)
(* requests.  Every call that leaves the process (Telegram, the disk, the  *)
(* PDF loader, the language model, Google) either returns or raises.       *)
(* The whitespace of str.strip and of JSON is the space and the line       *)
(* break; JSON arrays, booleans, fractions and string escapes are left     *)
(* out of the answers of the model.                                        *)
(***************************************************************************)
EXTENDS Integers, Sequences, FiniteSets, TLC

(***************************************************************************)
(* Bounds of the model.                                                    *)
(***************************************************************************)
MaxRequests == 2
\* most line breaks before, and after, a payload in an answer of the model
MaxPad == 1

(***************************************************************************)
(* Characters and texts.                                                   *)
(***************************************************************************)
TICK == "tick"
QUOTE == "\""
PyWhitespace == {" ", "\n"}
JsonWhitespace == {" ", "\n"}
Digits == {"0", "1", "2"}

FenceOpen == <<TICK, TICK, TICK, "j", "s", "o", "n">>
FenceClose == <<TICK, TICK, TICK>>
FenceOpenLen == 7
FenceCloseLen == 3

\* the characters of s at positions i..j, cut to the text as Python's slices are
Slice(s, i, j) ==
    LET lo == IF i < 1 THEN 1 ELSE i
        hi == IF j > Len(s) THEN Len(s) ELSE j
    IN  IF lo > hi THEN <<>> ELSE SubSeq(s, lo, hi)

StartsWith(s, p) == Len(s) >= Len(p) /\ Slice(s, 1, Len(p)) = p
EndsWith(s, p) == Len(s) >= Len(p) /\ Slice(s, Len(s) - Len(p) + 1, Len(s)) = p

RECURSIVE LStrip(_)
LStrip(s) == IF s # <<>> /\ Head(s) \in PyWhitespace THEN LStrip(Tail(s)) ELSE s

RECURSIVE RStrip(_)
RStrip(s) ==
    IF s # <<>> /\ s[Len(s)] \in PyWhitespace
    THEN RStrip(Slice(s, 1, Len(s) - 1))
    ELSE s

\* str.strip()
Strip(s) == RStrip(LStrip(s))

(***************************************************************************)
(* JSON values: strings, integers, null and objects (a function from key   *)
(* texts to values).  Every value has the same three fields.               *)
(***************************************************************************)
JStr(s) == [t |-> "str", s |-> s, o |-> <<>>]
JNum(s) == [t |-> "num", s |-> s, o |-> <<>>]
JNull == [t |-> "null", s |-> <<>>, o |-> <<>>]
JObj(f) == [t |-> "obj", s |-> <<>>, o |-> f]
EmptyObj == JObj(<<>>)

\* dict item assignment d[k] = v
SetItem(f, k, v) == [x \in (DOMAIN f) \cup {k} |-> IF x = k THEN v ELSE f[x]]

(***************************************************************************)
(* json.loads, for the grammar                                             *)
(*   value  ::= object | string | number | null                            *)
(*   object ::= { } | { string : value (, string : value)* }               *)
(* with whitespace allowed around every token and nothing after the value. *)
(***************************************************************************)
ParseFail == [ok |-> FALSE, v |-> JNull, p |-> 0]
ParseOk(v, p) == [ok |-> TRUE, v |-> v, p |-> p]

CharAt(s, i) == IF i >= 1 /\ i <= Len(s) THEN s[i] ELSE "EOF"

RECURSIVE SkipWs(_, _)
SkipWs(s, i) == IF CharAt(s, i) \in JsonWhitespace THEN SkipWs(s, i + 1) ELSE i

\* index of the closing quote of a string whose content starts at i, 0 if none
RECURSIVE FindQuote(_, _)
FindQuote(s, i) ==
    IF i > Len(s) THEN 0
    ELSE IF s[i] = QUOTE THEN i
    ELSE IF s[i] = "\n" THEN 0
    ELSE FindQuote(s, i + 1)

ParseString(s, i) ==
    IF CharAt(s, i) # QUOTE THEN ParseFail
    ELSE LET j == FindQuote(s, i + 1)
         IN  IF j = 0 THEN ParseFail ELSE ParseOk(JStr(Slice(s, i + 1, j - 1)), j + 1)

RECURSIVE SkipDigits(_, _)
SkipDigits(s, i) == IF CharAt(s, i) \in Digits THEN SkipDigits(s, i + 1) ELSE i

ParseNumber(s, i) ==
    LET j == IF CharAt(s, i) = "0" THEN i + 1 ELSE SkipDigits(s, i)
    IN  IF j = i THEN ParseFail ELSE ParseOk(JNum(Slice(s, i, j - 1)), j)

ParseNull(s, i) ==
    IF Slice(s, i, i + 3) = <<"n", "u", "l", "l">> THEN ParseOk(JNull, i + 4) ELSE ParseFail

RECURSIVE ParseValue(_, _)
RECURSIVE ParseMembers(_, _, _)

\* i is the position of a member's key; acc holds the members read so far
ParseMembers(s, i, acc) ==
    LET k == ParseString(s, i)
        c == SkipWs(s, k.p)
        v == ParseValue(s, SkipWs(s, c + 1))
        e == SkipWs(s, v.p)
        acc2 == SetItem(acc, k.v.s, v.v)
    IN  IF ~k.ok \/ CharAt(s, c) # ":" THEN ParseFail
        ELSE IF ~v.ok THEN ParseFail
        ELSE IF CharAt(s, e) = "," THEN ParseMembers(s, SkipWs(s, e + 1), acc2)
        ELSE IF CharAt(s, e) = "}" THEN ParseOk(JObj(acc2), e + 1)
        ELSE ParseFail

ParseObject(s, i) ==
    LET j == SkipWs(s, i + 1)
    IN  IF CharAt(s, j) = "}" THEN ParseOk(EmptyObj, j + 1) ELSE ParseMembers(s, j, <<>>)

ParseValue(s, i) ==
    LET c == CharAt(s, i)
    IN  IF c = "{" THEN ParseObject(s, i)
        ELSE IF c = QUOTE THEN ParseString(s, i)
        ELSE IF c \in Digits THEN ParseNumber(s, i)
        ELSE IF c = "n" THEN ParseNull(s, i)
        ELSE ParseFail

\* json.loads(s): [ok, v]; ok = FALSE stands for json.JSONDecodeError
JsonLoads(s) ==
    LET r == ParseValue(s, SkipWs(s, 1))
    IN  IF r.ok /\ SkipWs(s, r.p) = Len(s) + 1
        THEN [ok |-> TRUE, v |-> r.v]
        ELSE [ok |-> FALSE, v |-> JNull]

(***************************************************************************)
(* analyze_document after the model has answered: strip, drop the opening  *)
(* fence, drop the closing fence, strip, json.loads.                       *)
(***************************************************************************)
\* the opening fence dropped one character short
DropFenceOpenShort(r) ==
    IF StartsWith(r, FenceOpen) THEN Slice(r, FenceOpenLen, Len(r)) ELSE r

DropFenceOpen(r) ==
    IF StartsWith(r, FenceOpen) THEN Slice(r, FenceOpenLen + 1, Len(r)) ELSE r

DropFenceClose(r) ==
    IF EndsWith(r, FenceClose) THEN Slice(r, 1, Len(r) - FenceCloseLen) ELSE r

CleanResponse(content) == Strip(DropFenceClose(DropFenceOpen(Strip(content))))

\* an empty record returned when json.loads raises
analyze_document_defaulting(content) ==
    IF JsonLoads(CleanResponse(content)).ok
    THEN JsonLoads(CleanResponse(content))
    ELSE [ok |-> TRUE, v |-> EmptyObj]

\* [ok, v]: the record analyze_document returns, or ok = FALSE when json.loads raises
analyze_document(content) == JsonLoads(CleanResponse(content))

(***************************************************************************)
(* The keys of the JSON contract.                                          *)
(***************************************************************************)
KeyTip == <<"t", "i", "p">>
KeyImya == <<"i", "m", "y", "a">>
KeyFakty == <<"f", "a", "k", "t", "y">>
KeyDolzhnost == <<"d", "o", "l", "z", "h", "n", "o", "s", "t">>
KeyGorod == <<"g", "o", "r", "o", "d">>
KeyData == <<"d", "a", "t", "a">>
KeyOrganizatsiya == <<"o", "r", "g", "a", "n", "i", "z", "a", "t", "s", "i", "y", "a">>
KeyRezyume == <<"r", "e", "z", "y", "u", "m", "e">>
KeyFayl == <<"f", "a", "y", "l">>

EmptyStr == JStr(<<>>)
Dash == JStr(<<"-">>)

\* d.get(k, default) on a dict d
Get(d, k, default) == IF k \in DOMAIN d.o THEN d.o[k] ELSE default

\* only a dict has .get: on any other value the call raises AttributeError
HasGet(v) == v.t = "obj"

(***************************************************************************)
(* The row of write_to_sheet: [ok, row], ok = FALSE when building it       *)
(* raises AttributeError.                                                  *)
(***************************************************************************)
NoRow == <<>>

BuildRow(data) ==
    IF ~HasGet(data) THEN [ok |-> FALSE, row |-> NoRow]
    ELSE LET facts == Get(data, KeyFakty, EmptyObj)
         IN  IF ~HasGet(facts) THEN [ok |-> FALSE, row |-> NoRow]
             ELSE [ok |-> TRUE,
                   row |-> << Get(data, KeyFayl, EmptyStr),
                              Get(data, KeyTip, EmptyStr),
                              Get(data, KeyImya, EmptyStr),
                              Get(facts, KeyDolzhnost, EmptyStr),
                              Get(facts, KeyGorod, EmptyStr),
                              Get(facts, KeyData, EmptyStr),
                              Get(facts, KeyOrganizatsiya, EmptyStr),
                              Get(data, KeyRezyume, EmptyStr) >>]

(***************************************************************************)
(* The summary of handle_document: [ok, fields], the values shown on its   *)
(* seven lines; ok = FALSE when formatting raises AttributeError.          *)
(***************************************************************************)
FormatResponse(result) ==
    IF ~HasGet(result) THEN [ok |-> FALSE, fields |-> <<>>]
    ELSE LET facts == Get(result, KeyFakty, EmptyObj)
         IN  IF ~HasGet(facts) THEN [ok |-> FALSE, fields |-> <<>>]
             ELSE [ok |-> TRUE,
                   fields |-> << Get(result, KeyTip, Dash),
                                 Get(result, KeyImya, Dash),
                                 Get(facts, KeyDolzhnost, Dash),
                                 Get(facts, KeyGorod, Dash),
                                 Get(facts, KeyData, Dash),
                                 Get(facts, KeyOrganizatsiya, Dash),
                                 Get(result, KeyRezyume, Dash) >>]

(***************************************************************************)
(* Texts the language model may answer with.                               *)
(***************************************************************************)
StrText(s) == <<QUOTE>> \o s \o <<QUOTE>>
Member(k, vtext) == StrText(k) \o <<":">> \o vtext

RECURSIVE Join(_)
Join(ms) ==
    IF ms = <<>> THEN <<>>
    ELSE IF Len(ms) = 1 THEN ms[1]
    ELSE ms[1] \o <<",">> \o Join(Tail(ms))

ObjText(ms) == <<"{">> \o Join(ms) \o <<"}">>

\* the members of ms whose position is in keep, in order
RECURSIVE Pick(_, _, _)
Pick(ms, keep, i) ==
    IF i > Len(ms) THEN <<>>
    ELSE (IF i \in keep THEN <<ms[i]>> ELSE <<>>) \o Pick(ms, keep, i + 1)

FactMembers ==
    << Member(KeyDolzhnost, StrText(<<"d">>)),
       Member(KeyGorod, StrText(<<"e">>)),
       Member(KeyData, StrText(<<"f">>)),
       Member(KeyOrganizatsiya, StrText(<<"g">>)) >>

FactsTexts ==
    { ObjText(Pick(FactMembers, keep, 1)) : keep \in SUBSET (1..4) }
        \cup { StrText(<<"x">>), <<"1">>, <<"n", "u", "l", "l">> }

RecordMembers(factsText) ==
    << Member(KeyTip, StrText(<<"a">>)),
       Member(KeyImya, StrText(<<"b">>)),
       Member(KeyFakty, factsText),
       Member(KeyRezyume, StrText(<<"c">>)) >>

RecordTexts ==
    { ObjText(Pick(RecordMembers(ft), keep, 1)) :
        ft \in FactsTexts, keep \in SUBSET (1..4) }

Pad(n) == [i \in 1..n |-> "\n"]

\* structured payloads: valid JSON texts
Payloads ==
    LET bare == RecordTexts \cup { StrText(<<"a">>), <<"1">>, <<"n", "u", "l", "l">> }
    IN  { Pad(i) \o p \o Pad(j) : p \in bare, i \in 0..MaxPad, j \in 0..MaxPad }

\* a payload between an opening and a closing fence
FenceWrap(p) == FenceOpen \o p \o FenceClose

Junk ==
    { <<>>, <<"x">>, <<"{">>, <<"O", "K", " ", "{", "}">>, <<"{", "}", " ", "x">>,
      FenceOpen, FenceClose, <<TICK, TICK, TICK>> \o <<"{", "}">> \o FenceClose }

ParseInputs ==
    Payloads
        \cup { FenceWrap(p) : p \in Payloads }
        \cup { FenceOpen \o p : p \in Payloads }
        \cup { p \o FenceClose : p \in Payloads }
        \cup { <<" ">> \o FenceWrap(p) \o <<"\n">> : p \in Payloads }
        \cup Junk

\* the answers of the model in the request pipeline
Responses ==
    { <<"{", "}">>,
      FenceWrap(<<"\n">> \o ObjText(Pick(RecordMembers(<<>>), {1, 4}, 1)) \o <<"\n">>),
      ObjText(<<Member(KeyFakty, ObjText(Pick(FactMembers, {2}, 1)))>>),
      ObjText(<<Member(KeyFakty, <<"n", "u", "l", "l">>)>>),
      <<"1">>,
      <<"O", "K", " ", "{", "}">> }

(***************************************************************************)
(* The state of the process and of the request being handled.              *)
(***************************************************************************)
VARIABLES
    credsEnv,      \* GOOGLE_CREDENTIALS_B64: "unset", "bad" (not decodable) or "ok"
    mainPc,        \* main: "init", then "polling" once run_polling is entered
    nreq,          \* updates dispatched to handle_document so far
    pc,            \* position of handle_document in the request
    update,        \* update.message.document: [mime, fileName]
    replies,       \* reply_text calls of the request: [kind, body, ok]
    trace,         \* calls made in the request, in order
    raised,        \* messages of the exceptions raised in handle_document
    exc,           \* message of the exception being handled or propagating
    tmpPath,       \* local tmp_path, 0 while unbound
    created,       \* temporary files created in the request
    fs,            \* temporary files on disk
    llmResponse,   \* llm.invoke(prompt).content
    result,        \* local result: the record analyze_document returned
    row,           \* local row of write_to_sheet
    writeOutcome,  \* how write_to_sheet ended
    rows0,         \* rows in the sheet when the request arrived
    sheet,         \* rows of the sheet Data!A:A
    log            \* lines printed

vars == << credsEnv, mainPc, nreq, pc, update, replies, trace, raised, exc, tmpPath,
           created, fs, llmResponse, result, row, writeOutcome, rows0, sheet, log >>

NoExc == ""
NoText == <<"NONE">>
NoResult == [t |-> "none", s |-> <<>>, o |-> <<>>]
NoUpdate == [mime |-> "", fileName |-> <<>>]

PdfMime == "application/pdf"
PdfUpdate == [mime |-> PdfMime, fileName |-> <<"f", ".", "p", "d", "f">>]
Updates == { PdfUpdate, [mime |-> "image/png", fileName |-> <<"p", ".", "p", "n", "g">>] }

\* no check of the content type
IsPdfUnchecked(mime) == TRUE

IsPdf(mime) == mime = PdfMime

Init ==
    /\ credsEnv \in {"unset", "bad", "ok"}
    /\ mainPc = "init"
    /\ nreq = 0
    /\ pc = "idle"
    /\ update = NoUpdate
    /\ replies = <<>>
    /\ trace = <<>>
    /\ raised = <<>>
    /\ exc = NoExc
    /\ tmpPath = 0
    /\ created = {}
    /\ fs = {}
    /\ llmResponse = NoText
    /\ result = NoResult
    /\ row = NoRow
    /\ writeOutcome = "none"
    /\ rows0 = 0
    /\ sheet = <<>>
    /\ log = <<>>

\* main: build the application, register the handlers, poll
Main ==
    /\ mainPc = "init"
    /\ mainPc' = "polling"
    /\ UNCHANGED << credsEnv, nreq, pc, update, replies, trace, raised, exc, tmpPath,
                    created, fs, llmResponse, result, row, writeOutcome, rows0, sheet, log >>

\* the application dispatches a document update to handle_document
Receive ==
    /\ mainPc = "polling"
    /\ pc \in {"idle", "done", "escaped"}
    /\ nreq < MaxRequests
    /\ \E u \in Updates : update' = u
    /\ nreq' = nreq + 1
    /\ pc' = "check_mime"
    /\ replies' = <<>>
    /\ trace' = <<>>
    /\ raised' = <<>>
    /\ exc' = NoExc
    /\ tmpPath' = 0
    /\ created' = {}
    /\ llmResponse' = NoText
    /\ result' = NoResult
    /\ row' = NoRow
    /\ writeOutcome' = "none"
    /\ rows0' = Len(sheet)
    /\ UNCHANGED << credsEnv, mainPc, fs, sheet, log >>

\* await update.message.reply_text(...)
Reply(kind, body, ok) ==
    /\ replies' = Append(replies, [kind |-> kind, body |-> body, ok |-> ok])
    /\ trace' = Append(trace, kind)

\* an exception raised inside the try block
Raise(msg) ==
    /\ exc' = msg
    /\ raised' = Append(raised, msg)
    /\ pc' = "except"

\* an exception raised outside the try block
Escape(msg) ==
    /\ exc' = msg
    /\ raised' = Append(raised, msg)
    /\ pc' = "escaped"

CheckMime ==
    /\ pc = "check_mime"
    /\ \E failed \in BOOLEAN :
        /\ IF ~IsPdf(update.mime)
           THEN /\ Reply("rejection", <<>>, ~failed)
                /\ IF ~failed THEN pc' = "done" /\ UNCHANGED << exc, raised >>
                         ELSE Escape("reply failed")
           ELSE /\ Reply("receiving", <<>>, ~failed)
                /\ IF ~failed THEN pc' = "get_file" /\ UNCHANGED << exc, raised >>
                         ELSE Escape("reply failed")
    /\ UNCHANGED << credsEnv, mainPc, nreq, update, tmpPath, created, fs, llmResponse,
                    result, row, writeOutcome, rows0, sheet, log >>

GetFile ==
    /\ pc = "get_file"
    /\ trace' = Append(trace, "get_file")
    /\ \E failed \in BOOLEAN :
        IF ~failed THEN pc' = "download" /\ UNCHANGED << exc, raised >>
              ELSE Raise("get_file failed")
    /\ UNCHANGED << credsEnv, mainPc, nreq, update, replies, tmpPath, created, fs,
                    llmResponse, result, row, writeOutcome, rows0, sheet, log >>

Download ==
    /\ pc = "download"
    /\ trace' = Append(trace, "download")
    /\ \E failed \in BOOLEAN :
        IF ~failed THEN pc' = "mktemp" /\ UNCHANGED << exc, raised >>
              ELSE Raise("download failed")
    /\ UNCHANGED << credsEnv, mainPc, nreq, update, replies, tmpPath, created, fs,
                    llmResponse, result, row, writeOutcome, rows0, sheet, log >>

\* a name no file on disk has
NewTmp == CHOOSE n \in 1..(Cardinality(fs) + 1) : n \notin fs

\* with tempfile.NamedTemporaryFile(delete=False, suffix=".pdf") as tmp: ...
MakeTemp ==
    /\ pc = "mktemp"
    /\ trace' = Append(trace, "mktemp")
    /\ \E outcome \in {"created and written", "create failed", "write failed"} :
        IF outcome = "create failed"
        THEN /\ Raise("tempfile failed")
             /\ UNCHANGED << tmpPath, created, fs >>
        ELSE /\ fs' = fs \cup {NewTmp}
             /\ created' = created \cup {NewTmp}
             /\ IF outcome = "write failed"
                THEN Raise("write failed") /\ UNCHANGED tmpPath
                ELSE /\ tmpPath' = NewTmp
                     /\ pc' = "load"
                     /\ UNCHANGED << exc, raised >>
    /\ UNCHANGED << credsEnv, mainPc, nreq, update, replies, llmResponse, result, row,
                    writeOutcome, rows0, sheet, log >>

\* PyPDFLoader(tmp_path).load() and the join of the pages
LoadPdf ==
    /\ pc = "load"
    /\ trace' = Append(trace, "load")
    /\ \E failed \in BOOLEAN :
        IF ~failed THEN pc' = "reply_analysing" /\ UNCHANGED << exc, raised >>
              ELSE Raise("load failed")
    /\ UNCHANGED << credsEnv, mainPc, nreq, update, replies, tmpPath, created, fs,
                    llmResponse, result, row, writeOutcome, rows0, sheet, log >>

ReplyAnalysing ==
    /\ pc = "reply_analysing"
    /\ \E failed \in BOOLEAN :
        /\ Reply("analysing", <<>>, ~failed)
        /\ IF ~failed THEN pc' = "llm" /\ UNCHANGED << exc, raised >>
                 ELSE Raise("reply failed")
    /\ UNCHANGED << credsEnv, mainPc, nreq, update, tmpPath, created, fs, llmResponse,
                    result, row, writeOutcome, rows0, sheet, log >>

\* analyze_document: response = llm.invoke(prompt).content
LlmInvoke ==
    /\ pc = "llm"
    /\ trace' = Append(trace, "llm")
    /\ \E failed \in BOOLEAN :
        IF ~failed
        THEN /\ \E r \in Responses : llmResponse' = r
             /\ pc' = "parse"
             /\ UNCHANGED << exc, raised >>
        ELSE Raise("llm failed") /\ UNCHANGED llmResponse
    /\ UNCHANGED << credsEnv, mainPc, nreq, update, replies, tmpPath, created, fs,
                    result, row, writeOutcome, rows0, sheet, log >>

\* analyze_document: the fences, json.loads and the return to handle_document
ParseResponse ==
    /\ pc = "parse"
    /\ LET a == analyze_document(llmResponse)
       IN  IF a.ok
           THEN /\ result' = a.v
                /\ pc' = "format"
                /\ UNCHANGED << exc, raised >>
           ELSE /\ Raise("JSONDecodeError")
                /\ UNCHANGED result
    /\ UNCHANGED << credsEnv, mainPc, nreq, update, replies, trace, tmpPath, created, fs,
                    llmResponse, row, writeOutcome, rows0, sheet, log >>

\* the summary is sent and the sheet is skipped
ReplyAnalysisSkipsWrite ==
    /\ pc = "format"
    /\ LET f == FormatResponse(result)
       IN  IF ~f.ok
           THEN Raise("AttributeError") /\ UNCHANGED << replies, trace >>
           ELSE \E failed \in BOOLEAN :
                   /\ Reply("analysis", f.fields, ~failed)
                   /\ IF ~failed THEN pc' = "reply_saved" /\ UNCHANGED << exc, raised >>
                            ELSE Raise("reply failed")
    /\ UNCHANGED << credsEnv, mainPc, nreq, update, tmpPath, created, fs, llmResponse,
                    result, row, writeOutcome, rows0, sheet, log >>

\* the summary is formatted and sent
ReplyAnalysis ==
    /\ pc = "format"
    /\ LET f == FormatResponse(result)
       IN  IF ~f.ok
           THEN Raise("AttributeError") /\ UNCHANGED << replies, trace >>
           ELSE \E failed \in BOOLEAN :
                   /\ Reply("analysis", f.fields, ~failed)
                   /\ IF ~failed THEN pc' = "write" /\ UNCHANGED << exc, raised >>
                            ELSE Raise("reply failed")
    /\ UNCHANGED << credsEnv, mainPc, nreq, update, tmpPath, created, fs, llmResponse,
                    result, row, writeOutcome, rows0, sheet, log >>

(***************************************************************************)
(* write_to_sheet(data, sheet_id): the credentials, the service, the row   *)
(* and the append, all inside one try; any exception is printed and        *)
(* swallowed.                                                              *)
(***************************************************************************)
WriteOutcomes(data) ==
    IF credsEnv # "ok" THEN {"creds_error"}
    ELSE {"build_error"}
            \cup (IF BuildRow(data).ok THEN {"append_error", "ok"} ELSE {"row_error"})

WriteError(o) ==
    IF o = "creds_error"
    THEN (IF credsEnv = "unset" THEN "EnvironmentError" ELSE "credentials invalid")
    ELSE IF o = "build_error" THEN "build failed"
    ELSE IF o = "row_error" THEN "AttributeError"
    ELSE "append failed"

write_to_sheet(data) ==
    \E o \in WriteOutcomes(data) :
        /\ writeOutcome' = o
        /\ row' = IF o \in {"append_error", "ok"} THEN BuildRow(data).row ELSE NoRow
        /\ trace' = trace \o <<"write_to_sheet">>
                          \o (IF o \in {"append_error", "ok"} THEN <<"append">> ELSE <<>>)
        /\ sheet' = IF o = "ok" THEN Append(sheet, BuildRow(data).row) ELSE sheet
        /\ log' = IF o = "ok" THEN log ELSE Append(log, WriteError(o))

\* write_to_sheet without its except clause: a failure reaches handle_document
WriteToSheetRaising ==
    /\ pc = "write"
    /\ LET data == JObj(SetItem(result.o, KeyFayl, JStr(update.fileName)))
       IN  /\ result' = data
           /\ write_to_sheet(data)
    /\ IF writeOutcome' = "ok"
       THEN pc' = "reply_saved" /\ UNCHANGED << exc, raised >>
       ELSE Raise(WriteError(writeOutcome'))
    /\ UNCHANGED << credsEnv, mainPc, nreq, update, replies, tmpPath,
                    created, fs, llmResponse, rows0 >>

\* result["fayl"] = file.file_name; write_to_sheet(result, SPREADSHEET_ID)
WriteToSheet ==
    /\ pc = "write"
    /\ LET data == JObj(SetItem(result.o, KeyFayl, JStr(update.fileName)))
       IN  /\ result' = data
           /\ write_to_sheet(data)
    /\ pc' = "reply_saved"
    /\ UNCHANGED << credsEnv, mainPc, nreq, update, replies, raised, exc, tmpPath,
                    created, fs, llmResponse, rows0 >>

ReplySaved ==
    /\ pc = "reply_saved"
    /\ \E failed \in BOOLEAN :
        /\ Reply("saved", <<>>, ~failed)
        /\ IF ~failed THEN pc' = "finally" /\ UNCHANGED << exc, raised >>
                 ELSE Raise("reply failed")
    /\ UNCHANGED << credsEnv, mainPc, nreq, update, tmpPath, created, fs, llmResponse,
                    result, row, writeOutcome, rows0, sheet, log >>

\* except Exception as e: the error notification; its own failure propagates
Except ==
    /\ pc = "except"
    /\ \E failed \in BOOLEAN :
        /\ Reply("error", <<exc>>, ~failed)
        /\ IF ~failed THEN exc' = NoExc /\ UNCHANGED raised
                 ELSE exc' = "reply failed" /\ raised' = Append(raised, "reply failed")
    /\ pc' = "finally"
    /\ UNCHANGED << credsEnv, mainPc, nreq, update, tmpPath, created, fs, llmResponse,
                    result, row, writeOutcome, rows0, sheet, log >>

\* finally: if 'tmp_path' in locals(): os.unlink(tmp_path)
Finally ==
    /\ pc = "finally"
    /\ IF tmpPath = 0
       THEN /\ pc' = IF exc = NoExc THEN "done" ELSE "escaped"
            /\ UNCHANGED << trace, fs, exc, raised >>
       ELSE /\ trace' = Append(trace, "unlink")
            /\ \E failed \in BOOLEAN :
                IF ~failed
                THEN /\ fs' = fs \ {tmpPath}
                     /\ pc' = IF exc = NoExc THEN "done" ELSE "escaped"
                     /\ UNCHANGED << exc, raised >>
                ELSE /\ Escape("unlink failed")
                     /\ UNCHANGED fs
    /\ UNCHANGED << credsEnv, mainPc, nreq, update, replies, tmpPath, created,
                    llmResponse, result, row, writeOutcome, rows0, sheet, log >>

Next ==
    \/ Main
    \/ Receive
    \/ CheckMime
    \/ GetFile
    \/ Download
    \/ MakeTemp
    \/ LoadPdf
    \/ ReplyAnalysing
    \/ LlmInvoke
    \/ ParseResponse
    \/ ReplyAnalysis
    \/ WriteToSheet
    \/ ReplySaved
    \/ Except
    \/ Finally

Spec == Init /\ [][Next]_vars

(***************************************************************************)
(* analyze_document's parsing on its own: the request has reached the      *)
(* model call and the model has answered with any of ParseInputs.          *)
(***************************************************************************)
InitParse ==
    /\ credsEnv = "ok"
    /\ mainPc = "polling"
    /\ nreq = 1
    /\ pc = "parse"
    /\ update = PdfUpdate
    /\ replies = << [kind |-> "receiving", body |-> <<>>, ok |-> TRUE],
                    [kind |-> "analysing", body |-> <<>>, ok |-> TRUE] >>
    /\ trace = <<"receiving", "get_file", "download", "mktemp", "load", "analysing", "llm">>
    /\ raised = <<>>
    /\ exc = NoExc
    /\ tmpPath = 1
    /\ created = {1}
    /\ fs = {1}
    /\ llmResponse \in ParseInputs
    /\ result = NoResult
    /\ row = NoRow
    /\ writeOutcome = "none"
    /\ rows0 = 0
    /\ sheet = <<>>
    /\ log = <<>>

NextParse == ParseResponse

SpecParse == InitParse /\ [][NextParse]_vars

(***************************************************************************)
(* write_to_sheet(data: dict, sheet_id) on its own: called with any dict    *)
(* json.loads can return, with or without the file name.                   *)
(***************************************************************************)
RowInputs ==
    LET dicts == { v \in { analyze_document(p).v : p \in Payloads } : HasGet(v) }
    IN  dicts \cup { JObj(SetItem(d.o, KeyFayl, JStr(PdfUpdate.fileName))) : d \in dicts }

InitRow ==
    /\ credsEnv = "ok"
    /\ mainPc = "init"
    /\ nreq = 0
    /\ pc = "call"
    /\ update = NoUpdate
    /\ replies = <<>>
    /\ trace = <<>>
    /\ raised = <<>>
    /\ exc = NoExc
    /\ tmpPath = 0
    /\ created = {}
    /\ fs = {}
    /\ llmResponse = NoText
    /\ result \in RowInputs
    /\ row = NoRow
    /\ writeOutcome = "none"
    /\ rows0 = 0
    /\ sheet = <<>>
    /\ log = <<>>

CallWriteToSheet ==
    /\ pc = "call"
    /\ write_to_sheet(result)
    /\ pc' = "returned"
    /\ UNCHANGED << credsEnv, mainPc, nreq, update, replies, raised, exc, tmpPath,
                    created, fs, llmResponse, result, rows0 >>

NextRow == CallWriteToSheet

SpecRow == InitRow /\ [][NextRow]_vars

(***************************************************************************)
(* Properties.                                                             *)
(***************************************************************************)
Count(seq, e) == Cardinality({ i \in DOMAIN seq : seq[i] = e })
Ended == pc \in {"done", "escaped"}
ErrorReplies == { i \in DOMAIN replies : replies[i].kind = "error" }

\* C1: when handle_document has exited, by any path, no temporary file
\* created for the request is left on disk.
C1Claim == Ended => created \cap fs = {}

\* C2: a request whose content type is not application/pdf gets the rejection
\* message and nothing else: no download, no temporary file, no extraction,
\* no model call, no append.
C2Theorem ==
    (pc # "idle" /\ update.mime # "application/pdf") =>
        /\ \A i \in DOMAIN trace : trace[i] = "rejection"
        /\ Len(trace) <= 1
        /\ pc \in {"check_mime", "done", "escaped"}
        /\ Ended => Len(replies) = 1 /\ replies[1].kind = "rejection"
        /\ created = {}
        /\ tmpPath = 0
        /\ llmResponse = NoText
        /\ writeOutcome = "none"
        /\ Len(sheet) = rows0

C2Witness ==
    /\ pc = "done"
    /\ update.mime = "image/png"
    /\ replies = << [kind |-> "rejection", body |-> <<>>, ok |-> TRUE] >>

\* C3: no exception leaves handle_document, and when errors were raised in a
\* request there is exactly one of them and exactly one error notification,
\* which carries its message.
C3Claim ==
    Ended =>
        /\ pc = "done"
        /\ raised # <<>> =>
            /\ Len(raised) = 1
            /\ Cardinality(ErrorReplies) = 1
            /\ \A i \in ErrorReplies : replies[i].body = <<raised[1]>>

\* C4: a request in which analyze_document returned a record has called the
\* sheet's append exactly once by the time the handler has exited.
C4Claim == (Ended /\ result # NoResult) => Count(trace, "append") = 1

\* C5: when the answer of the model is not JSON once the fences are dropped,
\* json.loads' error leaves analyze_document, no record is made up, the model
\* is called once, nothing is appended to the sheet, and the error
\* notification is issued with that error's message.
Unparseable ==
    /\ llmResponse # NoText
    /\ pc # "parse"
    /\ ~JsonLoads(CleanResponse(llmResponse)).ok

C5Theorem ==
    Unparseable =>
        /\ raised # <<>> /\ raised[1] = "JSONDecodeError"
        /\ result = NoResult
        /\ Count(trace, "llm") = 1
        /\ Count(trace, "write_to_sheet") = 0
        /\ Count(trace, "append") = 0
        /\ Len(sheet) = rows0
        /\ pc \in {"finally", "done", "escaped"} =>
            /\ ErrorReplies # {}
            /\ replies[CHOOSE i \in ErrorReplies : \A j \in ErrorReplies : i <= j].body
                  = <<"JSONDecodeError">>

C5Witness ==
    /\ pc = "done"
    /\ Unparseable
    /\ Cardinality(ErrorReplies) = 1
    /\ \A i \in ErrorReplies : replies[i].ok /\ replies[i].body = <<"JSONDecodeError">>

\* C6: when the append to the sheet throws, the summary has already been
\* sent, the failure is printed, no error notification is sent for it, and
\* the replies of the request are the ones of a request whose append
\* succeeded.
Kinds == [i \in DOMAIN replies |-> replies[i].kind]

RepliesAfterWrite ==
    /\ Len(replies) >= 3
    /\ SubSeq(Kinds, 1, 3) = <<"receiving", "analysing", "analysis">>
    /\ \A i \in 1..3 : replies[i].ok
    /\ pc = "reply_saved" => Len(replies) = 3
    /\ pc # "reply_saved" =>
        /\ Len(replies) >= 4
        /\ replies[4].kind = "saved"
        /\ replies[4].ok => Len(replies) = 4
        /\ ~replies[4].ok /\ pc # "except" =>
            /\ Len(replies) = 5
            /\ replies[5].kind = "error"
            /\ replies[5].body = <<"reply failed">>

C6Theorem ==
    /\ writeOutcome \in {"ok", "append_error"} => RepliesAfterWrite
    /\ writeOutcome = "append_error" =>
        /\ log # <<>> /\ log[Len(log)] = "append failed"
        /\ \A i \in DOMAIN raised : raised[i] # "append failed"
        /\ \A i \in ErrorReplies : replies[i].body # <<"append failed">>
        /\ Len(sheet) = rows0

C6Witness ==
    /\ pc = "done"
    /\ writeOutcome = "append_error"
    /\ Kinds = <<"receiving", "analysing", "analysis", "saved">>
    /\ \A i \in DOMAIN replies : replies[i].ok

\* C7: with GOOGLE_CREDENTIALS_B64 unset, main never reaches polling, no
\* request is dispatched and the missing credential is never met inside a
\* request.
C7Claim ==
    credsEnv = "unset" =>
        /\ mainPc = "init"
        /\ nreq = 0
        /\ \A i \in DOMAIN log : log[i] # "EnvironmentError"

\* C8: for any record json.loads can return, write_to_sheet builds a row of
\* exactly 8 cells [file, type, name, role, city, date, organization,
\* summary], a missing field being the empty string, and never fails to.
Field(d, k) == IF d.t = "obj" /\ k \in DOMAIN d.o THEN d.o[k] ELSE EmptyStr
Fact(d, k) == Field(Field(d, KeyFakty), k)

C8Claim ==
    (pc = "returned" /\ writeOutcome \notin {"none", "creds_error", "build_error"}) =>
        /\ writeOutcome # "row_error"
        /\ Len(row) = 8
        /\ row = << Field(result, KeyFayl), Field(result, KeyTip), Field(result, KeyImya),
                    Fact(result, KeyDolzhnost), Fact(result, KeyGorod),
                    Fact(result, KeyData), Fact(result, KeyOrganizatsiya),
                    Field(result, KeyRezyume) >>

\* C9: an answer made of a structured payload between the opening and the
\* closing fence is parsed to the record the payload alone is parsed to.
WrappedPayloads == { FenceWrap(p) : p \in Payloads }
Unwrapped(r) == Slice(r, Len(FenceOpen) + 1, Len(r) - Len(FenceClose))

C9Theorem ==
    (pc # "parse" /\ llmResponse \in WrappedPayloads) =>
        /\ analyze_document(Unwrapped(llmResponse)).ok
        /\ raised = <<>>
        /\ result = analyze_document(Unwrapped(llmResponse)).v

C9Witness ==
    /\ pc = "format"
    /\ llmResponse \in WrappedPayloads
    /\ Unwrapped(llmResponse) # Strip(Unwrapped(llmResponse))
    /\ result.t = "obj"
    /\ DOMAIN result.o = {KeyTip, KeyFakty}
    /\ DOMAIN result.o[KeyFakty].o = {KeyGorod}

\* C10: the success notification comes after the summary was sent and after
\* write_to_sheet was called, and write_to_sheet is called after the
\* summary was sent.
C10Theorem ==
    /\ \A i \in DOMAIN trace : trace[i] = "saved" =>
          \E j \in 1..(i - 1) : trace[j] = "write_to_sheet"
    /\ \A j \in DOMAIN trace : trace[j] = "write_to_sheet" =>
          /\ \E k \in 1..(j - 1) : trace[k] = "analysis"
          /\ \E r \in DOMAIN replies : replies[r].kind = "analysis" /\ replies[r].ok

C10Witness ==
    /\ pc = "done"
    /\ Count(trace, "saved") = 1
    /\ writeOutcome \in {"ok", "append_error", "creds_error", "build_error"}

=============================================================================
